---- MODULE Spec2Model ----
(***************************************************************************)
(* A model of internalgraph/internal_graph.py: the entities (Node, Edge,   *)
(* both BaseGraphElement), the InternalGraph container, its mutators and   *)
(* its queries.                                                            *)
(*                                                                         *)
(* Python objects are held in two heaps (node_heap, edge_heap); a          *)
(* reference to an object is a record [kind, ix].  The graph's lists hold  *)
(* references, so a property set on an inserted entity is seen through the *)
(* graph.  Identifiers, property names and property values are strings.    *)
(* A Python dict is a function whose DOMAIN is its key set (the insertion  *)
(* order of a dict plays no part in dict equality and is not modelled).    *)
(* Python's None and the empty value of an optional argument are both      *)
(* falsy and are told apart nowhere in the code: the empty string, the     *)
(* empty sequence and the empty function stand for both.                   *)
(***************************************************************************)
EXTENDS Integers, Sequences, FiniteSets, TLC

VARIABLES node_heap, edge_heap, constructed, nodes, edges, all_node_ids, sets, last,
          other

vars == <<node_heap, edge_heap, constructed, nodes, edges, all_node_ids, sets, last,
          other>>

-----------------------------------------------------------------------------
(* Bounds of the model *)

\* entities constructed (Spec, SpecEdges, SpecProps; SpecEntity has one)
MaxObjs == 2
\* length of a list passed to the constructor, add_node or add_edge
MaxList == 2
\* length the edge sequence may reach through add_edge
MaxEdgesLen == 3
\* set_property calls in SpecProps, and in SpecEntity
MaxSets == 1
EMaxSets == 2
\* edges of a graph in SpecParents
PMaxEdges == 3

-----------------------------------------------------------------------------
(* Input alphabets *)

Ids == {"a", "b"}
NoId == ""
UuidPool == <<"u1", "u2", "u3", "u4", "u5", "u6", "u7", "u8">>
Keys == {"id", "label", "", "start"}
Vals == {"v1", "v2"}
EmptyDict == <<>>

Range(s) == {s[i] : i \in 1..Len(s)}
SeqsUpTo(S, n) == UNION {[1..k -> S] : k \in 0..n}

-----------------------------------------------------------------------------
(* Python values *)

None == [kind |-> "None", ix |-> 0]
NodeRef(i) == [kind |-> "Node", ix |-> i]
EdgeRef(i) == [kind |-> "Edge", ix |-> i]
NodeRefs == {NodeRef(i) : i \in 1..Len(node_heap)}
EdgeRefs == {EdgeRef(i) : i \in 1..Len(edge_heap)}
Deref(r) == IF r.kind = "Node" THEN node_heap[r.ix] ELSE edge_heap[r.ix]

\* dict[name] = value
DictSet(d, name, value) ==
    [k \in DOMAIN d \cup {name} |-> IF k = name THEN value ELSE d[k]]

\* a | b : the right operand wins on a shared key
DictMerge(a, b) ==
    [k \in DOMAIN a \cup DOMAIN b |-> IF k \in DOMAIN b THEN b[k] ELSE a[k]]

\* uuid.uuid4(): an identifier no other object or input carries
uuid4 == UuidPool[Len(node_heap) + Len(edge_heap) + 1]

-----------------------------------------------------------------------------
(* BaseGraphElement, Node, Edge *)

BaseInit(id, properties) ==
    [id |-> IF id # NoId THEN id ELSE uuid4,
     properties |-> IF DOMAIN properties # {} THEN properties ELSE EmptyDict]

NewNode(id, properties) ==
    /\ node_heap' = Append(node_heap, BaseInit(id, properties))
    /\ last' = [op |-> "Node", properties |-> properties,
                ret |-> NodeRef(Len(node_heap) + 1)]
    /\ UNCHANGED <<edge_heap, constructed, nodes, edges, all_node_ids, sets, other>>

NewEdge(from_id, to_id, id, properties) ==
    /\ edge_heap' = Append(edge_heap,
           [id |-> BaseInit(id, properties).id,
            properties |-> BaseInit(id, properties).properties,
            from_id |-> from_id, to_id |-> to_id])
    /\ last' = [op |-> "Edge", properties |-> properties,
                ret |-> EdgeRef(Len(edge_heap) + 1)]
    /\ UNCHANGED <<node_heap, constructed, nodes, edges, all_node_ids, sets, other>>

set_property(properties, name, value) == DictSet(properties, name, value)

SetProperty(r, name, value) ==
    /\ IF r.kind = "Node"
       THEN /\ node_heap' = [node_heap EXCEPT ![r.ix].properties =
                                 set_property(@, name, value)]
            /\ UNCHANGED edge_heap
       ELSE /\ edge_heap' = [edge_heap EXCEPT ![r.ix].properties =
                                 set_property(@, name, value)]
            /\ UNCHANGED node_heap
    /\ sets' = sets + 1
    /\ last' = [op |-> "set_property", self |-> r, name |-> name]
    /\ UNCHANGED <<constructed, nodes, edges, all_node_ids, other>>

-----------------------------------------------------------------------------
(* InternalGraph: constructor and mutators *)

RECURSIVE InitIds(_, _, _)
InitIds(arg, i, ids) ==
    IF i > Len(arg) THEN ids
    ELSE InitIds(arg, i + 1, ids \cup {node_heap[arg[i]].id})

GraphInit(nodes_arg, edges_arg) ==
    /\ ~constructed
    /\ constructed' = TRUE
    /\ nodes' = IF nodes_arg # <<>> THEN nodes_arg ELSE <<>>
    /\ edges' = IF edges_arg # <<>> THEN edges_arg ELSE <<>>
    /\ all_node_ids' = IF nodes_arg # <<>> THEN InitIds(nodes_arg, 1, {}) ELSE {}
    /\ last' = [op |-> "InternalGraph"]
    /\ UNCHANGED <<node_heap, edge_heap, sets, other>>

\* The loop of add_node.  st = [nodes, ids, added]; the input list is either a
\* list of the caller (aliased = FALSE) or the graph's own node list, which the
\* loop then sees growing (aliased = TRUE).
RECURSIVE AddNodeLoop(_, _, _, _)
AddNodeLoop(inp, aliased, i, st) ==
    LET cur == IF aliased THEN st.nodes ELSE inp IN
    IF i > Len(cur) THEN st
    ELSE LET n == cur[i] IN
         IF node_heap[n].id \notin st.ids
         THEN AddNodeLoop(inp, aliased, i + 1,
                  [nodes |-> Append(st.nodes, n),
                   ids |-> st.ids \cup {node_heap[n].id},
                   added |-> Append(st.added, n)])
         ELSE AddNodeLoop(inp, aliased, i + 1, st)

\* add_node that appends without recording the id in the membership index
add_node_noindex(inp, aliased) ==
    [AddNodeLoop(inp, aliased, 1,
                 [nodes |-> nodes, ids |-> all_node_ids, added |-> <<>>])
        EXCEPT !.ids = all_node_ids]

add_node(inp, aliased) ==
    AddNodeLoop(inp, aliased, 1,
                [nodes |-> nodes, ids |-> all_node_ids, added |-> <<>>])

\* add_node handing back its whole input
added_nodes_input(r, node) == node

\* return added_nodes: the list of the nodes the loop appended
added_nodes(r, node) == r.added

\* node is a list when is_list, a single Node in a one-element sequence otherwise
AddNode(node, is_list, aliased) ==
    /\ constructed
    /\ LET inp == IF aliased THEN nodes ELSE node
           r == add_node(node, aliased) IN
       /\ nodes' = r.nodes
       /\ all_node_ids' = r.ids
       /\ last' = [op |-> "add_node", node |-> inp,
                   is_list |-> is_list, ret |-> added_nodes(r, inp)]
    /\ UNCHANGED <<node_heap, edge_heap, constructed, edges, sets, other>>

add_edge(edge, is_list) ==
    IF is_list THEN edges \o edge ELSE Append(edges, edge[1])

AddEdge(edge, is_list) ==
    /\ constructed
    /\ Len(edges) + Len(edge) <= MaxEdgesLen
    /\ edges' = add_edge(edge, is_list)
    /\ last' = [op |-> "add_edge"]
    /\ UNCHANGED <<node_heap, edge_heap, constructed, nodes, all_node_ids, sets, other>>

-----------------------------------------------------------------------------
(* BaseGraphElement, Node, Edge: reads *)

One(k, v) == [x \in {k} |-> v]

\* the merge written the other way round: a bag key "id" shadows self.id
NodeDict_bagwins(e) == DictMerge(One("id", e.id), e.properties)

\* BaseGraphElement.__dict__
NodeDict(e) == DictMerge(e.properties, One("id", e.id))

\* Edge.__dict__
EdgeDict(e) ==
    DictMerge(e.properties,
              [k \in {"id", "start", "end"} |->
                  IF k = "id" THEN e.id ELSE IF k = "start" THEN e.from_id ELSE e.to_id])

\* the result of a call that may raise
Returned(v) == [ok |-> TRUE, none |-> FALSE, val |-> v]
ReturnedNone == [ok |-> TRUE, none |-> TRUE, val |-> ""]
Raised(exc) == [ok |-> FALSE, none |-> FALSE, val |-> exc]

\* dict.get(name) and dict[name]
DictGet(d, name) == IF name \in DOMAIN d THEN Returned(d[name]) ELSE ReturnedNone
DictIndex(d, name) == IF name \in DOMAIN d THEN Returned(d[name]) ELSE Raised("KeyError")

\* get_property without the test for "id": every name is read from the bag
get_property_noid(e, name, no_error) ==
    IF no_error THEN DictGet(e.properties, name)
    ELSE DictIndex(e.properties, name)

get_property(e, name, no_error) ==
    IF name = "id" THEN Returned(e.id)
    ELSE IF no_error THEN DictGet(e.properties, name)
    ELSE DictIndex(e.properties, name)

\* __iter__: the keys of the bag and the value of self.id, through a set
iter(e) == DOMAIN e.properties \cup {e.id}

split_dict(in_dict, strip_list) ==
    IF strip_list = <<>> THEN Raised("ValueError")
    ELSE Returned(
           [left |-> [k \in {x \in DOMAIN in_dict : x \in Range(strip_list)} |-> in_dict[k]],
            right |-> [k \in {x \in DOMAIN in_dict : x \notin Range(strip_list)} |-> in_dict[k]]])

DefaultSplit == <<"id", "label", "description", "type">>
EdgeSplit == <<"id", "label", "description", "type", "start", "end">>

\* BaseGraphElement.serialize on the dict form of the element
base_serialize(original, split_list) ==
    LET sl == IF split_list = <<>> THEN DefaultSplit ELSE split_list
        sp == split_dict(original, sl)
    IN IF sp.ok
       THEN Returned(DictMerge(sp.val.left, One("short_details", sp.val.right)))
       ELSE sp

\* Node.serialize(split_list) and Edge.serialize()
serialize(r, split_list) ==
    IF r.kind = "Node" THEN base_serialize(NodeDict(Deref(r)), split_list)
    ELSE base_serialize(EdgeDict(Deref(r)), EdgeSplit)

GetProperty(r, name, no_error) ==
    /\ last' = [op |-> "get_property", self |-> r, name |-> name,
                no_error |-> no_error, ret |-> get_property(Deref(r), name, no_error)]
    /\ UNCHANGED <<node_heap, edge_heap, constructed, nodes, edges, all_node_ids, sets, other>>

Iter(r) ==
    /\ last' = [op |-> "iter", self |-> r, ret |-> iter(Deref(r))]
    /\ UNCHANGED <<node_heap, edge_heap, constructed, nodes, edges, all_node_ids, sets, other>>

Serialize(r, split_list) ==
    /\ last' = [op |-> "serialize", self |-> r,
                split_list |-> IF r.kind = "Node" THEN split_list ELSE <<>>,
                ret |-> serialize(r, split_list)]
    /\ UNCHANGED <<node_heap, edge_heap, constructed, nodes, edges, all_node_ids, sets, other>>

-----------------------------------------------------------------------------
(* InternalGraph: queries *)

node_exists(id) == id \in all_node_ids

RECURSIVE NeighborsLoop(_, _, _)
NeighborsLoop(id, i, out) ==
    IF i > Len(edges) THEN out
    ELSE LET e == edge_heap[edges[i]]
             o1 == IF id = e.from_id THEN Append(out, e.to_id) ELSE out
             o2 == IF id = e.to_id THEN Append(o1, e.from_id) ELSE o1
         IN NeighborsLoop(id, i + 1, o2)

\* the loop with "elif" for the second test: one yield per edge at most
RECURSIVE NeighborsLoopElif(_, _, _)
NeighborsLoopElif(id, i, out) ==
    IF i > Len(edges) THEN out
    ELSE LET e == edge_heap[edges[i]] IN
         NeighborsLoopElif(id, i + 1,
             IF id = e.from_id THEN Append(out, e.to_id)
             ELSE IF id = e.to_id THEN Append(out, e.from_id) ELSE out)

get_node_neighbors_elif(id) == NeighborsLoopElif(id, 1, <<>>)

get_node_neighbors(id) == NeighborsLoop(id, 1, <<>>)

RECURSIVE AllEdgesLoop(_, _, _)
AllEdgesLoop(node_ids, i, out) ==
    IF i > Len(edges) THEN out
    ELSE LET e == edge_heap[edges[i]] IN
         AllEdgesLoop(node_ids, i + 1,
             IF e.from_id \in Range(node_ids) /\ e.to_id \in Range(node_ids)
             THEN Append(out, EdgeRef(edges[i])) ELSE out)

\* the loop with "or" between the two membership tests
RECURSIVE AllEdgesLoopOr(_, _, _)
AllEdgesLoopOr(node_ids, i, out) ==
    IF i > Len(edges) THEN out
    ELSE LET e == edge_heap[edges[i]] IN
         AllEdgesLoopOr(node_ids, i + 1,
             IF e.from_id \in Range(node_ids) \/ e.to_id \in Range(node_ids)
             THEN Append(out, EdgeRef(edges[i])) ELSE out)

get_all_edges_or(node_ids) == AllEdgesLoopOr(node_ids, 1, <<>>)

get_all_edges(node_ids) == AllEdgesLoop(node_ids, 1, <<>>)

\* x.id == name.  A raw id is compared by value.  BaseGraphElement defines no
\* __eq__, so an id (a UUID or a str) compared with a Node or an Edge object
\* falls back to identity and is False.
RawId(id) == [kind |-> "raw", id |-> id]
IdEq(x_id, name) == IF name.kind = "raw" THEN x_id = name.id ELSE FALSE

RECURSIVE FirstNode(_, _)
FirstNode(name, i) ==
    IF i > Len(nodes) THEN None
    ELSE IF IdEq(node_heap[nodes[i]].id, name) THEN NodeRef(nodes[i])
    ELSE FirstNode(name, i + 1)

RECURSIVE FirstEdge(_, _)
FirstEdge(name, i) ==
    IF i > Len(edges) THEN None
    ELSE IF IdEq(edge_heap[edges[i]].id, name) THEN EdgeRef(edges[i])
    ELSE FirstEdge(name, i + 1)

\* __getitem__
getitem(name) ==
    IF name.kind = "Node" THEN FirstNode(name, 1)
    ELSE IF name.kind = "Edge" THEN FirstEdge(name, 1)
    ELSE IF FirstNode(name, 1) # None THEN FirstNode(name, 1)
    ELSE FirstEdge(name, 1)

\* the names gathered by iterating each node instead of reading its dict form
get_all_node_property_names_iter ==
    UNION {iter(node_heap[nodes[i]]) : i \in 1..Len(nodes)}

get_all_node_property_names ==
    UNION {DOMAIN NodeDict(node_heap[nodes[i]]) : i \in 1..Len(nodes)}

get_all_edge_property_names ==
    UNION {DOMAIN EdgeDict(edge_heap[edges[i]]) : i \in 1..Len(edges)}

\* the comprehension without its "filter_key and" guard
DictValues_noguard(d, filter_key) ==
    {d[k] : k \in {x \in DOMAIN d : x = filter_key}}

DictValues(d, filter_key) ==
    {d[k] : k \in {x \in DOMAIN d : filter_key # "" /\ x = filter_key}}

get_all_node_property_values(filter_key) ==
    UNION {DictValues(NodeDict(node_heap[nodes[i]]), filter_key) : i \in 1..Len(nodes)}

get_all_edge_property_values(filter_key) ==
    UNION {DictValues(EdgeDict(edge_heap[edges[i]]), filter_key) : i \in 1..Len(edges)}

Query(rec) ==
    /\ constructed
    /\ last' = rec
    /\ UNCHANGED <<node_heap, edge_heap, constructed, nodes, edges, all_node_ids, sets, other>>

NodeExists(id) == Query([op |-> "node_exists", id |-> id, ret |-> node_exists(id)])

GetNodeNeighbors(id) ==
    Query([op |-> "get_node_neighbors", id |-> id, ret |-> get_node_neighbors(id)])

GetAllEdges(node_ids) ==
    Query([op |-> "get_all_edges", node_ids |-> node_ids, ret |-> get_all_edges(node_ids)])

GetItem(name) == Query([op |-> "getitem", name |-> name, ret |-> getitem(name)])

GetAllNodePropertyNames ==
    Query([op |-> "get_all_node_property_names", ret |-> get_all_node_property_names])

GetAllEdgePropertyNames ==
    Query([op |-> "get_all_edge_property_names", ret |-> get_all_edge_property_names])

GetAllNodePropertyValues(filter_key) ==
    Query([op |-> "get_all_node_property_values", filter_key |-> filter_key,
           ret |-> get_all_node_property_values(filter_key)])

GetAllEdgePropertyValues(filter_key) ==
    Query([op |-> "get_all_edge_property_values", filter_key |-> filter_key,
           ret |-> get_all_edge_property_values(filter_key)])

-----------------------------------------------------------------------------
(* A second InternalGraph, built over the node list of the first *)

\* other is the second graph.  self.nodes = nodes keeps the list object it is
\* given: when shared, the node list of the second graph is the list object
\* of the first (the variable nodes), and other.nodes is not used.
NoGraph == [constructed |-> FALSE, shared |-> FALSE, nodes |-> <<>>, all_node_ids |-> {}]
OtherNodes == IF other.shared THEN nodes ELSE other.nodes

\* g2 = InternalGraph(nodes=g.nodes): an empty list is false and is replaced
\* by a fresh list()
OtherInit ==
    /\ constructed
    /\ ~other.constructed
    /\ other' = [constructed |-> TRUE,
                 shared |-> nodes # <<>>,
                 nodes |-> <<>>,
                 all_node_ids |-> IF nodes # <<>> THEN InitIds(nodes, 1, {}) ELSE {}]
    /\ last' = [op |-> "InternalGraph"]
    /\ UNCHANGED <<node_heap, edge_heap, constructed, nodes, edges, all_node_ids, sets>>

\* g2.add_node(node) for a single Node
OtherAddNode(node) ==
    /\ other.constructed
    /\ LET r == AddNodeLoop(<<node>>, FALSE, 1,
                    [nodes |-> OtherNodes, ids |-> other.all_node_ids, added |-> <<>>])
       IN /\ nodes' = IF other.shared THEN r.nodes ELSE nodes
          /\ other' = [other EXCEPT !.nodes = IF other.shared THEN @ ELSE r.nodes,
                                    !.all_node_ids = r.ids]
          /\ last' = [op |-> "add_node", node |-> <<node>>, is_list |-> FALSE,
                      ret |-> added_nodes(r, <<node>>)]
    /\ UNCHANGED <<node_heap, edge_heap, constructed, edges, all_node_ids, sets>>

-----------------------------------------------------------------------------
(* InternalGraph.get_all_node_parents *)

\* The label values of the model, and str.find(":") on them: the position of
\* the first colon, or -1.
Labels == {"t:x", "plain"}
find_colon(label) == IF label = "t:x" THEN 1 ELSE -1

\* the comprehension that keeps one entry for each target
RECURSIVE DirectLoop_unique(_, _, _)
DirectLoop_unique(start_id, i, total) ==
    IF i > Len(edges) THEN total
    ELSE DirectLoop_unique(start_id, i + 1,
             IF /\ edge_heap[edges[i]].from_id = start_id
                /\ getitem(RawId(edge_heap[edges[i]].to_id)) \notin Range(total)
             THEN Append(total, getitem(RawId(edge_heap[edges[i]].to_id)))
             ELSE total)

\* total = [self[e.to_id] for e in self.edges if e.from_id == start.id]
RECURSIVE DirectLoop(_, _, _)
DirectLoop(start_id, i, total) ==
    IF i > Len(edges) THEN total
    ELSE DirectLoop(start_id, i + 1,
             IF edge_heap[edges[i]].from_id = start_id
             THEN Append(total, getitem(RawId(edge_heap[edges[i]].to_id)))
             ELSE total)

\* the merge that drops what the recursive call found
MergeChildren_none(total, children, j) == total

\* for child in children: if child not in total: total.append(child)
RECURSIVE MergeChildren(_, _, _)
MergeChildren(total, children, j) ==
    IF j > Len(children) THEN total
    ELSE MergeChildren(IF children[j] \notin Range(total)
                       THEN Append(total, children[j]) ELSE total,
                       children, j + 1)

\* the test that lets every colon-labelled candidate be expanded
not_in_parents_always(parents, found_node) == TRUE

\* not parents or found_node not in parents.  parents is None in the outermost
\* call and the caller's candidate list in a nested one; None and the empty
\* list are both false.
not_in_parents(parents, found_node) ==
    parents = <<>> \/ found_node \notin Range(parents)

\* A call reads start.id, the edges, the nodes and whether a candidate is in
\* parents: it is a function of <<start.id, the elements of parents>>.  active
\* holds the calls in progress.  A call made while the same call is in
\* progress repeats it without end, and Python raises RecursionError.
RECURSIVE get_all_node_parents(_, _, _), ParentsLoop(_, _, _, _)
get_all_node_parents(start_id, parents, active) ==
    LET total == DirectLoop(start_id, 1, <<>>)
        call == <<start_id, Range(parents)>>
    IN IF total = <<>> THEN ReturnedNone
       ELSE IF call \in active THEN Raised("RecursionError")
       ELSE ParentsLoop(parents, total, 1, active \cup {call})

\* for found_node in total: the loop sees the entries the merge appends
ParentsLoop(parents, total, i, active) ==
    IF i > Len(total) THEN Returned(total)
    ELSE LET found_node == total[i] IN
         IF found_node = None THEN Raised("AttributeError")
         ELSE LET label == get_property(Deref(found_node), "label", FALSE) IN
              IF ~label.ok THEN label
              ELSE IF find_colon(label.val) < 0
              THEN ParentsLoop(parents, total, i + 1, active)
              ELSE IF not_in_parents(parents, found_node)
              THEN LET children ==
                           get_all_node_parents(Deref(found_node).id, total, active)
                   IN IF ~children.ok THEN children
                      ELSE IF children.none
                      THEN ParentsLoop(parents, total, i + 1, active)
                      ELSE ParentsLoop(parents,
                               MergeChildren(total, children.val, 1), i + 1, active)
              ELSE ParentsLoop(parents, total, i + 1, active)

GetAllNodeParents(start) ==
    Query([op |-> "get_all_node_parents", start |-> start,
           ret |-> get_all_node_parents(Deref(start).id, <<>>, {})])

-----------------------------------------------------------------------------

Init ==
    /\ node_heap = <<>>
    /\ edge_heap = <<>>
    /\ constructed = FALSE
    /\ nodes = <<>>
    /\ edges = <<>>
    /\ all_node_ids = {}
    /\ sets = 0
    /\ last = [op |-> "start"]
    /\ other = NoGraph

AllIds == Ids \cup {UuidPool[1]}
Objs == Len(node_heap) + Len(edge_heap)

\* Spec: the node sequence, the membership index and lookup by id
Next ==
    \/ \E id \in {"a", NoId} : Objs < MaxObjs /\ NewNode(id, EmptyDict)
    \/ \E id \in {"a", NoId} :
          Objs < MaxObjs /\ edge_heap = <<>> /\ NewEdge("a", "b", id, EmptyDict)
    \/ \E ns \in SeqsUpTo(1..Len(node_heap), MaxList),
          es \in SeqsUpTo(1..Len(edge_heap), MaxList) : GraphInit(ns, es)
    \/ \E n \in 1..Len(node_heap) : AddNode(<<n>>, FALSE, FALSE)
    \/ \E ns \in SeqsUpTo(1..Len(node_heap), MaxList) : AddNode(ns, TRUE, FALSE)
    \/ AddNode(<<>>, TRUE, TRUE)
    \/ \E e \in 1..Len(edge_heap) : AddEdge(<<e>>, FALSE)
    \/ \E es \in SeqsUpTo(1..Len(edge_heap), MaxList) : AddEdge(es, TRUE)
    \/ \E id \in AllIds : NodeExists(id)
    \/ \E id \in AllIds : GetItem(RawId(id))
    \/ \E r \in NodeRefs \cup EdgeRefs : GetItem(r)

Spec == Init /\ [][Next]_vars

\* SpecEdges: the edge sequence and the queries that scan it
NodeIdLists == {<<>>, <<"a">>, <<"b">>, <<"a", "b">>, <<"b", "a", "b">>}

NextEdges ==
    \/ Objs < MaxObjs /\ NewNode("a", EmptyDict)
    \/ \E f \in Ids, t \in Ids : Objs < MaxObjs /\ NewEdge(f, t, NoId, EmptyDict)
    \/ \E ns \in SeqsUpTo(1..Len(node_heap), 1),
          es \in SeqsUpTo(1..Len(edge_heap), MaxList) : GraphInit(ns, es)
    \/ \E n \in 1..Len(node_heap) : AddNode(<<n>>, FALSE, FALSE)
    \/ \E e \in 1..Len(edge_heap) : AddEdge(<<e>>, FALSE)
    \/ \E es \in SeqsUpTo(1..Len(edge_heap), MaxList) : AddEdge(es, TRUE)
    \/ \E id \in AllIds : GetNodeNeighbors(id)
    \/ \E s \in NodeIdLists : GetAllEdges(s)

SpecEdges == Init /\ [][NextEdges]_vars

\* SpecProps: property bags seen through the graph
NextProps ==
    \/ \E p \in {EmptyDict, One("label", "v1")} : Objs < MaxObjs /\ NewNode(NoId, p)
    \/ Objs < MaxObjs /\ NewEdge("a", "b", NoId, EmptyDict)
    \/ \E r \in NodeRefs \cup EdgeRefs, k \in Keys :
          sets < MaxSets /\ SetProperty(r, k, "v2")
    \/ GraphInit(<<>>, <<>>)
    \/ \E n \in 1..Len(node_heap) : AddNode(<<n>>, FALSE, FALSE)
    \/ \E e \in (1..Len(edge_heap)) \ Range(edges) : AddEdge(<<e>>, FALSE)
    \/ GetAllNodePropertyNames
    \/ GetAllEdgePropertyNames
    \/ \E k \in Keys : GetAllNodePropertyValues(k)
    \/ \E k \in Keys : GetAllEdgePropertyValues(k)

SpecProps == Init /\ [][NextProps]_vars

\* SpecEntity: one entity, its property bag and its reads
InitProps == {EmptyDict, One("label", "v1"), One("id", "v1")}
SplitLists == {<<>>, <<"label">>, <<"id", "label">>, <<"short_details", "id">>}

NextEntity ==
    \/ \E id \in Ids \cup {NoId}, p \in InitProps : Objs = 0 /\ NewNode(id, p)
    \/ \E t \in Ids, id \in {"a", NoId}, p \in InitProps :
          Objs = 0 /\ NewEdge("a", t, id, p)
    \/ \E r \in NodeRefs \cup EdgeRefs, k \in Keys, v \in Vals :
          sets < EMaxSets /\ SetProperty(r, k, v)
    \/ \E r \in NodeRefs \cup EdgeRefs, k \in Keys, b \in BOOLEAN : GetProperty(r, k, b)
    \/ \E r \in NodeRefs \cup EdgeRefs : Iter(r)
    \/ \E r \in NodeRefs, sl \in SplitLists : Serialize(r, sl)
    \/ \E r \in EdgeRefs : Serialize(r, <<>>)

SpecEntity == Init /\ [][NextEntity]_vars

\* SpecParents: get_all_node_parents on every graph of the nodes a, b, c, each
\* with a label, and up to PMaxEdges edges between them.  The graph is the
\* one InternalGraph(nodes, edges) builds from Node(id, {"label": l}) and
\* Edge(from_id, to_id) objects; c is either in the graph or left out, so that
\* its id dangles.
ParentIds == <<"a", "b", "c">>
ParentNode(id, label) == BaseInit(id, One("label", label))
ParentEdge(ends, n) ==
    [id |-> UuidPool[Len(ParentIds) + n], properties |-> EmptyDict,
     from_id |-> ends[1], to_id |-> ends[2]]

InitParents ==
    /\ \E labels \in [1..Len(ParentIds) -> Labels] :
          node_heap = [i \in 1..Len(ParentIds) |-> ParentNode(ParentIds[i], labels[i])]
    /\ \E ends \in SeqsUpTo(Range(ParentIds) \X Range(ParentIds), PMaxEdges) :
          /\ edge_heap = [n \in 1..Len(ends) |-> ParentEdge(ends[n], n)]
          /\ edges = [n \in 1..Len(ends) |-> n]
    /\ constructed = TRUE
    /\ \E k \in (Len(ParentIds) - 1)..Len(ParentIds) :
          /\ nodes = [i \in 1..k |-> i]
          /\ all_node_ids = {ParentIds[i] : i \in 1..k}
    /\ sets = 0
    /\ last = [op |-> "start"]
    /\ other = NoGraph

NextParents == \E start \in NodeRefs : GetAllNodeParents(start)

SpecParents == InitParents /\ [][NextParents]_vars

\* SpecShared: two graphs and the node list they may share
NextShared ==
    \/ \E id \in Ids : Len(node_heap) < MaxObjs /\ NewNode(id, EmptyDict)
    \/ \E ns \in SeqsUpTo(1..Len(node_heap), MaxList) : GraphInit(ns, <<>>)
    \/ OtherInit
    \/ \E n \in 1..Len(node_heap) : AddNode(<<n>>, FALSE, FALSE)
    \/ \E n \in 1..Len(node_heap) : OtherAddNode(n)

SpecShared == Init /\ [][NextShared]_vars

-----------------------------------------------------------------------------
(* Properties *)

IdOf(n) == node_heap[n].id
EdgeAt(i) == edge_heap[edges[i]]
NodeSeqIds == {IdOf(nodes[i]) : i \in 1..Len(nodes)}

\* the k-th smallest member of a set of positions, and the subsequence of s
\* at the positions of P, in order
Kth(P, k) == CHOOSE i \in P : Cardinality({j \in P : j <= i}) = k
SubSeqAt(s, P) == [k \in 1..Cardinality(P) |-> s[Kth(P, k)]]
Count(s, w) == Cardinality({k \in 1..Len(s) : s[k] = w})

\* C1: in every reachable state the membership index is exactly the set of the
\* ids of the nodes in the node sequence, and node_exists(id) answers whether
\* some node of the sequence has that id.
C1_IndexEqualsNodeIds ==
    /\ all_node_ids = NodeSeqIds
    /\ last.op = "node_exists" =>
          (last.ret <=> \E i \in 1..Len(nodes) : IdOf(nodes[i]) = last.id)

C1_Witness ==
    /\ last.op = "add_node" /\ Len(last.ret) = 1
    /\ Len(nodes) = 3
    /\ IdOf(nodes[1]) = IdOf(nodes[2])
    /\ Cardinality(all_node_ids) = 2

\* C2: every add_node step returns exactly the input nodes whose id was not in
\* the membership index when they were processed (not in the index before the
\* call, and not carried by an earlier node of the input), in input order; the
\* node sequence grows by the returned list; a node whose id is present is
\* neither appended nor returned; a single node with a new id is returned alone
\* and grows the sequence by one.
Inserted(inp, ids) ==
    {i \in 1..Len(inp) :
        /\ IdOf(inp[i]) \notin ids
        /\ \A j \in 1..(i - 1) : IdOf(inp[j]) # IdOf(inp[i])}

C2_AddNodeStep ==
    LET inp == last'.node
        ret == last'.ret
    IN /\ ret = SubSeqAt(inp, Inserted(inp, all_node_ids))
       /\ nodes' = nodes \o ret
       /\ Len(nodes') = Len(nodes) + Len(ret)
       /\ \A i \in 1..Len(inp) :
             IdOf(inp[i]) \in all_node_ids =>
                 /\ inp[i] \notin Range(ret)
                 /\ Count(nodes', inp[i]) = Count(nodes, inp[i])
       /\ (~last'.is_list /\ IdOf(inp[1]) \notin all_node_ids) =>
             (ret = inp /\ Len(nodes') = Len(nodes) + 1)

C2_AddNodeIdempotent == [][last'.op = "add_node" => C2_AddNodeStep]_vars

C2_Witness ==
    /\ last.op = "add_node" /\ last.is_list
    /\ Len(last.node) = 2
    /\ last.node[1] # last.node[2]
    /\ IdOf(last.node[1]) = IdOf(last.node[2])
    /\ last.ret = <<last.node[1]>>

\* C3: graph[x], for x a raw id or an entity, returns the first element whose
\* id equals the id of x, nodes scanned before edges, and None only when no
\* element has that id.
NameId(name) == IF name.kind = "raw" THEN name.id ELSE Deref(name).id

C3_LookupByIdOrEntity ==
    last.op = "getitem" =>
        LET id == NameId(last.name)
            ni == {i \in 1..Len(nodes) : IdOf(nodes[i]) = id}
            ei == {i \in 1..Len(edges) : EdgeAt(i).id = id}
        IN last.ret = IF ni # {} THEN NodeRef(nodes[Kth(ni, 1)])
                      ELSE IF ei # {} THEN EdgeRef(edges[Kth(ei, 1)])
                      ELSE None

\* C4: neighbors(id) yields, in edge-sequence order, to_id for each edge with
\* from_id = id and then from_id for each edge with to_id = id, and nothing
\* else; so both endpoints of an edge see each other, w occurs as often as
\* there are edges id->w and w->id, and a self-loop on id yields id twice.
Hits(u) ==
    {h \in (1..Len(edges)) \X {1, 2} :
        IF h[2] = 1 THEN EdgeAt(h[1]).from_id = u ELSE EdgeAt(h[1]).to_id = u}
HitRank(H, h) ==
    Cardinality({g \in H : g[1] < h[1] \/ (g[1] = h[1] /\ g[2] <= h[2])})
HitValue(h) == IF h[2] = 1 THEN EdgeAt(h[1]).to_id ELSE EdgeAt(h[1]).from_id

C4_Neighbors ==
    last.op = "get_node_neighbors" =>
        LET u == last.id
            ret == last.ret
            H == Hits(u)
        IN /\ Len(ret) = Cardinality(H)
           /\ \A h \in H : ret[HitRank(H, h)] = HitValue(h)
           /\ \A i \in 1..Len(edges) :
                 /\ EdgeAt(i).from_id = u => EdgeAt(i).to_id \in Range(ret)
                 /\ EdgeAt(i).to_id = u => EdgeAt(i).from_id \in Range(ret)
           /\ \A w \in Ids :
                 Count(ret, w) =
                     Cardinality({i \in 1..Len(edges) :
                                     EdgeAt(i).from_id = u /\ EdgeAt(i).to_id = w})
                   + Cardinality({i \in 1..Len(edges) :
                                     EdgeAt(i).from_id = w /\ EdgeAt(i).to_id = u})
           /\ Count(ret, u) =
                 2 * Cardinality({i \in 1..Len(edges) :
                                     EdgeAt(i).from_id = u /\ EdgeAt(i).to_id = u})

C4_Witness ==
    /\ last.op = "get_node_neighbors"
    /\ Len(edges) = 2
    /\ EdgeAt(1).from_id = last.id /\ EdgeAt(1).to_id = last.id
    /\ EdgeAt(2).from_id # last.id /\ EdgeAt(2).to_id = last.id
    /\ Len(last.ret) = 3

\* C5: induced_edges(S) yields, in edge-sequence order and once each, exactly
\* the entries of the edge sequence whose from_id and to_id are both in S
\* (an Edge object appended twice is two entries).
C5_InducedEdges ==
    last.op = "get_all_edges" =>
        LET S == Range(last.node_ids)
            ret == last.ret
            P == {i \in 1..Len(edges) : EdgeAt(i).from_id \in S /\ EdgeAt(i).to_id \in S}
        IN /\ ret = SubSeqAt([i \in 1..Len(edges) |-> EdgeRef(edges[i])], P)
           /\ \A k \in 1..Len(ret) :
                 Deref(ret[k]).from_id \in S /\ Deref(ret[k]).to_id \in S
           /\ \A e \in EdgeRefs :
                 Count(ret, e) =
                     IF Deref(e).from_id \in S /\ Deref(e).to_id \in S
                     THEN Cardinality({i \in 1..Len(edges) : edges[i] = e.ix})
                     ELSE 0

C5_Witness ==
    /\ last.op = "get_all_edges"
    /\ Len(edges) = 3
    /\ Len(last.ret) = 2
    /\ last.ret[1] = last.ret[2]
    /\ EdgeAt(1).from_id = EdgeAt(1).to_id
    /\ all_node_ids = {}

\* C6 as stated: for every entity and every promoted-key list serialize accepts,
\* serialize(E) has a top-level id equal to E.id, short_details equal to the
\* property bag without the promoted keys and, for an edge, start and end
\* equal to from_id and to_id.
Promoted(r, split_list) ==
    IF r.kind = "Edge" THEN Range(EdgeSplit)
    ELSE IF split_list = <<>> THEN Range(DefaultSplit) ELSE Range(split_list)
Minus(d, K) == [k \in DOMAIN d \ K |-> d[k]]

SerializedAsClaimed(r, d, P) ==
    /\ "id" \in DOMAIN d /\ d["id"] = Deref(r).id
    /\ "short_details" \in DOMAIN d
    /\ d["short_details"] = Minus(Deref(r).properties, P)
    /\ r.kind = "Edge" =>
          /\ "start" \in DOMAIN d /\ d["start"] = Deref(r).from_id
          /\ "end" \in DOMAIN d /\ d["end"] = Deref(r).to_id

C6_SerializeAnyList ==
    last.op = "serialize" =>
        /\ last.ret.ok
        /\ SerializedAsClaimed(last.self, last.ret.val,
                               Promoted(last.self, last.split_list))

\* C6 as amended: the same for every promoted-key list that contains "id" (the
\* default lists do); with a list that omits "id" the result has no top-level
\* id, and short_details holds id = E.id besides the properties that are not
\* promoted.
C6_Serialize ==
    last.op = "serialize" =>
        LET r == last.self
            d == last.ret.val
            P == Promoted(r, last.split_list)
        IN /\ last.ret.ok
           /\ "id" \in P => SerializedAsClaimed(r, d, P)
           /\ "id" \notin P =>
                 /\ "id" \notin DOMAIN d
                 /\ d["short_details"] =
                       DictMerge(Minus(Deref(r).properties, P), One("id", Deref(r).id))

C6_Witness ==
    /\ last.op = "serialize"
    /\ last.self.kind = "Node"
    /\ last.split_list = <<"id", "label">>
    /\ DOMAIN Deref(last.self).properties = {"id", "label", ""}
    /\ DOMAIN last.ret.val = {"id", "label", "short_details"}
    /\ DOMAIN last.ret.val["short_details"] = {""}

\* C7: iterating an entity produces exactly the keys of its property bag and
\* the literal key "id", each once, and every produced key can be passed to
\* get_property.
C7_IterKeys ==
    last.op = "iter" =>
        /\ last.ret = DOMAIN Deref(last.self).properties \cup {"id"}
        /\ \A k \in last.ret : get_property(Deref(last.self), k, FALSE).ok

\* C8 as stated: all_node_property_names() is the union over the nodes of the
\* bag keys plus "id", all_edge_property_names() the union over the edges of
\* the bag keys plus "id", "start", "end", and the result always contains "id".
NamesAsClaimed ==
    /\ last.op = "get_all_node_property_names" =>
          last.ret = UNION {DOMAIN node_heap[nodes[i]].properties \cup {"id"} :
                               i \in 1..Len(nodes)}
    /\ last.op = "get_all_edge_property_names" =>
          last.ret = UNION {DOMAIN EdgeAt(i).properties \cup {"id", "start", "end"} :
                               i \in 1..Len(edges)}

C8_NamesAlwaysHoldId ==
    /\ NamesAsClaimed
    /\ last.op \in {"get_all_node_property_names", "get_all_edge_property_names"} =>
          "id" \in last.ret

\* C8 as amended: the unions as stated; the result contains "id" whenever the
\* graph holds at least one element of that kind, and is empty otherwise.
C8_Names ==
    /\ NamesAsClaimed
    /\ last.op = "get_all_node_property_names" =>
          IF Len(nodes) > 0 THEN "id" \in last.ret ELSE last.ret = {}
    /\ last.op = "get_all_edge_property_names" =>
          IF Len(edges) > 0 THEN {"id", "start", "end"} \subseteq last.ret
          ELSE last.ret = {}

C8_Witness ==
    /\ last.op = "get_all_node_property_names"
    /\ Len(nodes) = 2
    /\ DOMAIN node_heap[nodes[1]].properties # DOMAIN node_heap[nodes[2]].properties
    /\ "id" \notin DOMAIN node_heap[nodes[1]].properties
    /\ "id" \notin DOMAIN node_heap[nodes[2]].properties
    /\ Cardinality(last.ret) = 3

\* C9 as stated: for every key, the empty string and "id", "start", "end"
\* included, all_node_property_values(key) and all_edge_property_values(key)
\* are the set of the values the elements of that kind hold under the key.
NodeHeld(e, key) ==
    IF key = "id" THEN {e.id}
    ELSE IF key \in DOMAIN e.properties THEN {e.properties[key]} ELSE {}
EdgeHeld(e, key) ==
    IF key = "id" THEN {e.id}
    ELSE IF key = "start" THEN {e.from_id}
    ELSE IF key = "end" THEN {e.to_id}
    ELSE IF key \in DOMAIN e.properties THEN {e.properties[key]} ELSE {}
HeldByKind(op, key) ==
    IF op = "get_all_node_property_values"
    THEN UNION {NodeHeld(node_heap[nodes[i]], key) : i \in 1..Len(nodes)}
    ELSE UNION {EdgeHeld(EdgeAt(i), key) : i \in 1..Len(edges)}
ValueOps == {"get_all_node_property_values", "get_all_edge_property_values"}

HasIdKey(nh, eh, r) ==
    "id" \in DOMAIN (IF r.kind = "Node" THEN nh[r.ix] ELSE eh[r.ix]).properties
GetIdReturnsId ==
    (last.op = "get_property" /\ last.name = "id") =>
        last.ret = Returned(Deref(last.self).id)

C10_IdNeverAKey ==
    /\ \A r \in NodeRefs \cup EdgeRefs : ~HasIdKey(node_heap, edge_heap, r)
    /\ GetIdReturnsId

\* C10 as amended: "id" is a key of an entity's property bag exactly when the
\* caller put it there, in the initial mapping or by set_property("id", v); no
\* other step adds or removes it; get_property("id") returns the entity id
\* whether or not the bag holds the key.
C10_Step ==
    /\ \A r \in NodeRefs \cup EdgeRefs :
          HasIdKey(node_heap', edge_heap', r) <=>
              \/ HasIdKey(node_heap, edge_heap, r)
              \/ /\ last'.op = "set_property"
                 /\ last'.self = r
                 /\ last'.name = "id"
    /\ last'.op \in {"Node", "Edge"} =>
          (HasIdKey(node_heap', edge_heap', last'.ret) <=>
              "id" \in DOMAIN last'.properties)
    /\ GetIdReturnsId'

C10_IdKeyOnlyFromCaller == [][C10_Step]_vars

C10_Witness ==
    /\ last.op = "get_property" /\ last.name = "id"
    /\ HasIdKey(node_heap, edge_heap, last.self)
    /\ Deref(last.self).properties["id"] # Deref(last.self).id
    /\ last.ret = Returned(Deref(last.self).id)

-----------------------------------------------------------------------------
(* get_all_node_parents: the graph as a relation on ids *)

EdgePairs == {<<EdgeAt(i).from_id, EdgeAt(i).to_id>> : i \in 1..Len(edges)}
Compose(R, S) == {<<x[1][1], x[2][2]>> : x \in {y \in R \X S : y[1][2] = y[2][1]}}

\* the pairs joined by a path of 1..k+1 steps of R
RECURSIVE Paths(_, _)
Paths(R, k) ==
    IF k = 0 THEN R ELSE LET P == Paths(R, k - 1) IN P \cup Compose(P, R)
Closure(R) == Paths(R, Cardinality(R))

Acyclic == \A p \in Closure(EdgePairs) : p[1] # p[2]

\* the id names a node of the graph that carries a label
Labelled(id) ==
    \E i \in 1..Len(nodes) : IdOf(nodes[i]) = id /\ "label" \in DOMAIN node_heap[nodes[i]].properties
EndpointsLabelled == \A p \in EdgePairs : Labelled(p[1]) /\ Labelled(p[2])

\* the label of the first node with this id contains a colon
ColonLabelled(id) ==
    /\ Labelled(id)
    /\ find_colon(Deref(getitem(RawId(id))).properties["label"]) >= 0

\* the edges that leave a colon-labelled node
ColonPairs == {p \in EdgePairs : ColonLabelled(p[1])}

\* the ids reachable from id by a non-empty path whose intermediate nodes are
\* colon-labelled
ColonReach(id) ==
    LET first == {p[2] : p \in {q \in EdgePairs : q[1] = id}}
    IN first \cup {p[2] : p \in {q \in Closure(ColonPairs) : q[1] \in first}}

ParentsCall == last.op = "get_all_node_parents"
StartId == node_heap[last.start.ix].id
HasOutgoing(id) == \E p \in EdgePairs : p[1] = id

\* C11: on an acyclic graph whose edge endpoints are all nodes of the graph
\* with a label, get_all_node_parents(start) returns; it returns None when
\* start has no outgoing edge, and otherwise a list whose elements are exactly
\* the nodes reachable from start by a non-empty path whose intermediate nodes
\* have a label with a colon.
C11_AcyclicClosure ==
    (ParentsCall /\ Acyclic /\ EndpointsLabelled) =>
        /\ last.ret.ok
        /\ ~HasOutgoing(StartId) => last.ret.none
        /\ HasOutgoing(StartId) =>
              /\ ~last.ret.none
              /\ Range(last.ret.val) = {getitem(RawId(id)) : id \in ColonReach(StartId)}

\* an acyclic call that returns a node start has no edge to, found behind a
\* colon-labelled node, while another edge ends at a node without a colon
C11_Witness ==
    /\ ParentsCall /\ Acyclic /\ EndpointsLabelled
    /\ last.ret.ok /\ ~last.ret.none
    /\ \E n \in Range(last.ret.val) : <<StartId, Deref(n).id>> \notin EdgePairs
    /\ \E p \in EdgePairs : ~ColonLabelled(p[2])

\* the call recursed without end
Diverged == ~last.ret.ok /\ last.ret.val = "RecursionError"

\* some colon-labelled node that start reaches through colon-labelled
\* intermediates lies on a directed cycle
ColonNodeOnCycle(id) ==
    \E x \in ColonReach(id) : ColonLabelled(x) /\ <<x, x>> \in Closure(EdgePairs)

\* start reaches, through colon-labelled intermediates, a directed cycle of
\* two or more nodes that are all colon-labelled
BothColon == {p \in EdgePairs : ColonLabelled(p[1]) /\ ColonLabelled(p[2])}
ColonCycle(id) ==
    \E x \in ColonReach(id) : \E y \in Range(ParentIds) \ {x} :
        <<x, y>> \in Closure(BothColon) /\ <<y, x>> \in Closure(BothColon)

\* no two edges leave the same node
OneEdgePerNode ==
    \A i, j \in 1..Len(edges) : EdgeAt(i).from_id = EdgeAt(j).from_id => i = j

\* C12 as stated: whenever a directed cycle reachable from start through
\* colon-labelled intermediates passes through a colon-labelled node, the call
\* recurses without bound.
C12_EveryColonCycleDiverges ==
    (ParentsCall /\ EndpointsLabelled /\ ColonNodeOnCycle(StartId)) => Diverged

\* C12: the test against the caller's candidates protects against some
\* cycles.  The call recurses without bound only if start reaches, through
\* colon-labelled intermediates, a cycle of two or more nodes that are all
\* colon-labelled; without such a cycle, and with every edge endpoint a
\* labelled node of the graph, it returns; and when no two edges leave the
\* same node it recurses without bound on every such cycle.
C12_PartialCycleProtection ==
    ParentsCall =>
        /\ Diverged => ColonCycle(StartId)
        /\ (EndpointsLabelled /\ ~ColonCycle(StartId)) => last.ret.ok
        /\ (EndpointsLabelled /\ OneEdgePerNode /\ ColonCycle(StartId)) => Diverged

\* a call that recursed without end on a two-node cycle entered from outside
C12_Witness ==
    /\ ParentsCall /\ Diverged /\ EndpointsLabelled /\ OneEdgePerNode
    /\ \A p \in EdgePairs : p[2] # StartId

\* the edges from start that end at the node n
EdgesFromStartTo(n) ==
    {i \in 1..Len(edges) :
        EdgeAt(i).from_id = StartId /\ getitem(RawId(EdgeAt(i).to_id)) = n}

\* C13 as stated: a returned list holds no node more than once, on every
\* graph, parallel edges included.
C13_NoDuplicates ==
    (ParentsCall /\ last.ret.ok /\ ~last.ret.none) =>
        \A n \in Range(last.ret.val) : Count(last.ret.val, n) = 1

\* C13: in a returned list a node that start has edges to occurs once for
\* each of those edges, and every other node occurs once: only the nodes found
\* by the nested calls are merged when not already present, the direct
\* candidates are taken as the edges give them.
C13_DuplicatesOnlyFromStart ==
    (ParentsCall /\ last.ret.ok /\ ~last.ret.none) =>
        \A n \in Range(last.ret.val) :
            Count(last.ret.val, n) =
                IF EdgesFromStartTo(n) = {} THEN 1 ELSE Cardinality(EdgesFromStartTo(n))

\* a returned list with a node twice for two parallel edges from start, and a
\* node start has no edge to, found by the expansion of each copy, once
C13_Witness ==
    /\ ParentsCall /\ last.ret.ok /\ ~last.ret.none
    /\ \E n \in Range(last.ret.val) : Cardinality(EdgesFromStartTo(n)) = 2
    /\ \E n \in Range(last.ret.val) : EdgesFromStartTo(n) = {}

-----------------------------------------------------------------------------
(* Two graphs *)

Distinct(s) == \A i, j \in 1..Len(s) : IdOf(s[i]) = IdOf(s[j]) => i = j

\* C14: whatever node list a graph is constructed with, and whatever add_node
\* calls follow on the graphs, no two positions of a graph's node sequence
\* hold nodes with the same id.
C14_NodeIdsDistinct == Distinct(nodes) /\ Distinct(OtherNodes)

====
